---- MODULE Spec2Model ----
(***************************************************************************)
(* Lichtenberg-figure growth engine: graphs.py (Graph) and                 *)
(* inverse_square_law_simple.py (LichtenbergGraph).                        *)
(*                                                                         *)
(* Number representations                                                  *)
(*   loc     integer lattice, one unit = r: the steps of length r are the  *)
(*           four unit vectors, and norm < r*1.4 is 100*norm^2 < 196*r^2.  *)
(*   weight  fixed point, one unit = 0.001; a product is truncated to the  *)
(*           unit.                                                         *)
(*   burnt   IEEE-754 binary64, bit exact for the values the accumulator   *)
(*           takes: a non-negative number below 2^4 is the integer count   *)
(*           of 2^-60 it holds, written as three limbs <<hi, mid, lo>> in  *)
(*           base 2^24 (the count is hi*2^48 + mid*2^24 + lo).             *)
(***************************************************************************)
EXTENDS Integers, Sequences, FiniteSets, TLC

VARIABLES
    graph_dict,   \* Graph._graph_dict: key -> [neighbors, loc, weight, burnt]
    vertices,     \* insertion order of the keys of _graph_dict
    pc,           \* "idle", "pick", "unwind", or the exception that ended the run
    stack,        \* expansion_vertex of every make_new_vertex frame waiting for its recursive call
    path,         \* the local `path` of the last set_active_states
    runs,         \* set_active_states runs since the current make_new_vertex call began
    completed,    \* make_new_vertex calls issued by the driver that returned
    seed,         \* argument of the set_active_states calls of the reinforcement driver
    query,        \* arguments of the last Graph-level call
    result        \* value the last find_all_paths call returned

vars == <<graph_dict, vertices, pc, stack, path, runs, completed, seed, query, result>>

(***************************************************************************)
(* Bounds of the model                                                     *)
(***************************************************************************)
\* the driver stops calling make_new_vertex once the graph has this many vertices
MaxVertices == 4
\* interpreter's limit on nested make_new_vertex frames (CPython: about 1000)
MaxDepth == 2

(***************************************************************************)
(* Sequences                                                               *)
(***************************************************************************)
Range(s) == { s[i] : i \in DOMAIN s }

Front(s) == SubSeq(s, 1, Len(s) - 1)

RECURSIVE SumSeq(_)
SumSeq(s) == IF s = <<>> THEN 0 ELSE s[1] + SumSeq(Tail(s))

RECURSIVE MaxSeq(_)
MaxSeq(s) == IF Len(s) = 1 THEN s[1]
             ELSE LET m == MaxSeq(Tail(s)) IN IF s[1] >= m THEN s[1] ELSE m

\* list.index(x): the first position holding x
IndexOf(s, x) == CHOOSE i \in DOMAIN s : s[i] = x /\ \A j \in 1..(i - 1) : s[j] # x

(***************************************************************************)
(* binary64 arithmetic of the `burnt` accumulator                          *)
(***************************************************************************)
\* base of the limbs, 2^24
Limb == 4096 * 4096

RECURSIVE Pow2(_)
Pow2(n) == IF n = 0 THEN 1 ELSE 2 * Pow2(n - 1)

RECURSIVE FloorLog2(_)
FloorLog2(n) == IF n < 2 THEN 0 ELSE 1 + FloorLog2(n \div 2)

\* exact sum of two limb triples
LimbAdd(x, y) ==
    LET lo  == x[3] + y[3]
        mid == x[2] + y[2] + (lo \div Limb)
        hi  == x[1] + y[1] + (mid \div Limb)
    IN  <<hi, mid % Limb, lo % Limb>>

\* bits of the exact value below the 53-bit significand: the value is in
\* [2^(52+k), 2^(53+k)) exactly when its high limb is in [2^(4+k), 2^(5+k))
DroppedBits(x) == IF x[1] < 16 THEN 0 ELSE FloorLog2(x[1]) - 4

\* round to nearest, ties to even, at 53 significant bits
RoundNearestEven(x) ==
    LET k    == DroppedBits(x)
        unit == Pow2(k)
        rem  == x[3] % unit
        down == <<x[1], x[2], x[3] - rem>>
        odd  == ((x[3] \div unit) % 2) = 1
        up   == LimbAdd(down, <<0, 0, unit>>)
    IN  IF k = 0 \/ 2 * rem < unit THEN down
        ELSE IF 2 * rem > unit THEN up
        ELSE IF odd THEN up ELSE down

FloatAdd(x, y) == RoundNearestEven(LimbAdd(x, y))

FloatLess(x, y) ==
    \/ x[1] < y[1]
    \/ x[1] = y[1] /\ x[2] < y[2]
    \/ x[1] = y[1] /\ x[2] = y[2] /\ x[3] < y[3]

\* the literal 0
FloatZero == <<0, 0, 0>>
\* the literal .005 = 0x3F747AE147AE147B = 0x147AE147AE147B * 2^-60
BurntStep == <<20, 8053063, 11408507>>
\* the literal 15 = 15 * 2^12 * 2^48 * 2^-60
BurntCap == <<61440, 0, 0>>

(***************************************************************************)
(* graphs.py: Graph                                                        *)
(***************************************************************************)
\* the name of the root every reinforcement path ends at
Root == "0"

\* Python's `x in self._graph_dict`
InGraph(g, vertex) == vertex \in DOMAIN g

\* Graph.add_vertex storing an empty neighbour list whatever neigh is
Graph_add_vertex_unlinked(g, order, vertex, neigh, w) ==
    IF vertex \in DOMAIN g
    THEN [dict |-> g, order |-> order]
    ELSE [dict  |-> [k \in DOMAIN g \cup {vertex} |->
                        IF k = vertex
                        THEN [weight |-> w, neighbors |-> <<>>,
                              loc |-> <<>>, burnt |-> <<>>]
                        ELSE g[k]],
          order |-> Append(order, vertex)]

\* Graph.add_vertex as a mutation of (_graph_dict, key order): a key that is
\* present is left alone, otherwise { "weight" : w, "neighbors" : neigh } is stored
Graph_add_vertex(g, order, vertex, neigh, w) ==
    IF InGraph(g, vertex)
    THEN [dict |-> g, order |-> order]
    ELSE [dict  |-> [k \in DOMAIN g \cup {vertex} |->
                        IF k = vertex
                        THEN [weight |-> w, neighbors |-> neigh,
                              loc |-> <<>>, burnt |-> <<>>]
                        ELSE g[k]],
          order |-> Append(order, vertex)]

\* find_all_paths returning the path so far for a start_vertex not in graph
NoPaths_partial(p) == <<p>>

\* find_all_paths, a start_vertex that is not in graph: return []
NoPaths(p) == <<>>

\* Graph.find_all_paths(start_vertex, end_vertex, path); find_over is its
\* `for vertex in graph[start_vertex]["neighbors"]` loop from position i on
RECURSIVE find_all_paths(_, _, _, _)
RECURSIVE find_over(_, _, _, _, _)
find_all_paths(g, start_vertex, end_vertex, p0) ==
    LET p == Append(p0, start_vertex)
    IN  IF start_vertex = end_vertex THEN <<p>>
        ELSE IF ~InGraph(g, start_vertex) THEN NoPaths(p)
        ELSE find_over(g, g[start_vertex].neighbors, 1, end_vertex, p)

find_over(g, neigh, i, end_vertex, p) ==
    IF i > Len(neigh) THEN <<>>
    ELSE LET extended_paths ==
                 IF neigh[i] \notin Range(p)
                 THEN find_all_paths(g, neigh[i], end_vertex, p)
                 ELSE <<>>
         IN  extended_paths \o find_over(g, neigh, i + 1, end_vertex, p)

\* sum(graph[vertex]["weight"] for vertex in p)
PathWeight(g, p) == SumSeq([i \in DOMAIN p |-> g[p[i]].weight])

\* Graph.get_path_weights
get_path_weights(g, start_vertex, end_vertex) ==
    LET paths == find_all_paths(g, start_vertex, end_vertex, <<>>)
    IN  [i \in DOMAIN paths |-> PathWeight(g, paths[i])]

\* Graph.find_shortest_path; max() of an empty list raises ValueError, which
\* callers test with HasPath first
HasPath(g, start_vertex, end_vertex) ==
    find_all_paths(g, start_vertex, end_vertex, <<>>) # <<>>

find_shortest_path(g, start_vertex, end_vertex) ==
    LET paths        == find_all_paths(g, start_vertex, end_vertex, <<>>)
        path_weights == get_path_weights(g, start_vertex, end_vertex)
    IN  paths[IndexOf(path_weights, MaxSeq(path_weights))]

(***************************************************************************)
(* inverse_square_law_simple.py: geometry                                  *)
(***************************************************************************)
\* norm(a - b)^2
DistSq(a, b) == (a[1] - b[1]) * (a[1] - b[1]) + (a[2] - b[2]) * (a[2] - b[2])

\* LichtenbergGraph.r
r == 1

\* norm(a - b) < self.r*1.4, on squared lengths: 1.4^2 = 196/100
WithinThreshold(a, b) == 100 * DistSq(a, b) < 196 * r * r

\* the vectors of length r: what F *= self.r/norm(F) can produce on the lattice
Steps == { d \in (-r..r) \X (-r..r) : d[1] * d[1] + d[2] * d[2] = r * r }

\* LichtenbergGraph.get_nearest_vertex: min(dists, key=dists.get) is the first
\* key, in dictionary order, of minimal distance
get_nearest_vertex(g, order, new_loc) ==
    LET i == CHOOSE i \in DOMAIN order :
                 /\ \A j \in DOMAIN order :
                        DistSq(g[order[i]].loc, new_loc) <= DistSq(g[order[j]].loc, new_loc)
                 /\ \A j \in 1..(i - 1) :
                        DistSq(g[order[j]].loc, new_loc) > DistSq(g[order[i]].loc, new_loc)
    IN  order[i]

\* LichtenbergGraph.is_too_close: <<key>> for a returned key, <<>> for False
is_too_close(g, order, new_loc) ==
    IF \E i \in DOMAIN order : WithinThreshold(new_loc, g[order[i]].loc)
    THEN <<get_nearest_vertex(g, order, new_loc)>>
    ELSE <<>>

\* truth value of what is_too_close returned: False and "" are false
Truthy(x) == x # <<>> /\ x[1] # ""

\* LichtenbergGraph.pick_expansion_point: x0 + F, F of length r; the direction
\* comes from the force and four uniform draws and is an input of the step
pick_expansion_point(g, vertex, F) ==
    <<g[vertex].loc[1] + F[1], g[vertex].loc[2] + F[2]>>

\* the key one below the vertex count: the last key in use
NewKey_last(order) == ToString(Len(order) - 1)

\* str(len(self._graph_dict))
NewKey(order) == ToString(Len(order))

\* LichtenbergGraph.add_vertex: Graph.add_vertex, then "burnt" and "loc" are
\* assigned whether or not the key was new; pos is <<>> for None
add_vertex(g, order, vertex, neigh, pos, w) ==
    LET base == Graph_add_vertex(g, order, vertex, neigh, w)
    IN  [dict  |-> [base.dict EXCEPT ![vertex] =
                        [@ EXCEPT !.burnt = FloatZero,
                                  !.loc   = IF pos = <<>> THEN <<0, 0>> ELSE pos]],
         order |-> base.order]

(***************************************************************************)
(* inverse_square_law_simple.py: set_active_states                         *)
(***************************************************************************)
\* if graph[vertex]["burnt"] < 15: graph[vertex]["burnt"] += .005
OnPathBurnt(b) == IF FloatLess(b, BurntCap) THEN FloatAdd(b, BurntStep) ELSE b

\* the weight rule of the path loop without its `vertex != "0"` test
OnPathWeight_anyVertex(vertex, w) ==
    IF w < 1000 THEN 1000
    ELSE IF w < 2000 THEN (w * 11) \div 10
    ELSE w

\* if vertex != "0": weight < 1 -> 1, elif weight < 2 -> weight * 1.1
OnPathWeight(vertex, w) ==
    IF vertex # Root
    THEN IF w < 1000 THEN 1000
         ELSE IF w < 2000 THEN (w * 11) \div 10
         ELSE w
    ELSE w

\* the decay of the notpath loop without its `> .025` test
OffPathWeight_unguarded(w) == w - 25

\* if graph[vertex]["weight"] > .025: graph[vertex]["weight"] -= .025
OffPathWeight(w) == IF w > 25 THEN w - 25 ELSE w

\* the two loops of set_active_states over path and notpath
Reinforced(g, p) ==
    [k \in DOMAIN g |->
        IF k \in Range(p)
        THEN [g[k] EXCEPT !.burnt = OnPathBurnt(@), !.weight = OnPathWeight(k, @)]
        ELSE [g[k] EXCEPT !.weight = OffPathWeight(@)]]

\* set_active_states(vertex) on graph g: the best path and the graph it
\* leaves, or raised = TRUE when find_shortest_path has no path to take the
\* maximum of (ValueError) and nothing was assigned yet
set_active_states(g, vertex) ==
    IF HasPath(g, vertex, Root)
    THEN LET p == find_shortest_path(g, vertex, Root)
         IN  [raised |-> FALSE, path |-> p, dict |-> Reinforced(g, p)]
    ELSE [raised |-> TRUE, path |-> <<>>, dict |-> g]

(***************************************************************************)
(* Initial state: the graph the driver builds (__main__, g)                *)
(***************************************************************************)
\* the root's weight: 5 in __main__, 1 in the constructor's default graph
RootWeights == {5000, 1000}

ReferenceGraph(w0) ==
    [k \in {"0", "1"} |->
        IF k = "0"
        THEN [neighbors |-> <<"1">>, loc |-> <<0, 0>>, weight |-> w0, burnt |-> FloatZero]
        ELSE [neighbors |-> <<"0">>, loc |-> <<r, r>>, weight |-> 1000, burnt |-> FloatZero]]

Init ==
    /\ \E w0 \in RootWeights : graph_dict = ReferenceGraph(w0)
    /\ vertices = <<"0", "1">>
    /\ pc = "idle"
    /\ stack = <<>>
    /\ path = <<>>
    /\ runs = 0
    /\ completed = 0
    /\ seed = Root
    /\ query = <<>>
    /\ result = <<>>

(***************************************************************************)
(* The growth driver: for i in range(n): graph.make_new_vertex()           *)
(***************************************************************************)
\* the driver's call of make_new_vertex
Grow ==
    /\ pc = "idle"
    /\ Len(vertices) < MaxVertices
    /\ pc' = "pick"
    /\ stack' = <<>>
    /\ runs' = 0
    /\ UNCHANGED <<graph_dict, vertices, path, completed, seed, query, result>>

\* the frame that just ran set_active_states returns: to the frame below it,
\* or to the driver
Return(raised) ==
    /\ pc' = IF raised THEN "ValueError"
             ELSE IF stack = <<>> THEN "idle" ELSE "unwind"
    /\ completed' = IF ~raised /\ stack = <<>> THEN completed + 1 ELSE completed

\* make_new_vertex, lines 121-127 of the innermost frame: the two picks, then
\* either the recursive call or add_vertex followed by set_active_states
Attempt ==
    /\ pc = "pick"
    /\ \E expansion_vertex \in Range(vertices), F \in Steps :
         LET expansion_point == pick_expansion_point(graph_dict, expansion_vertex, F)
             near            == is_too_close(graph_dict, vertices, expansion_point)
         IN  IF Truthy(near) /\ <<expansion_vertex>> # near
             THEN \* self.make_new_vertex(): one more frame, or RecursionError
                  /\ IF Len(stack) + 2 > MaxDepth
                     THEN pc' = "RecursionError" /\ stack' = <<>>
                     ELSE pc' = "pick" /\ stack' = Append(stack, expansion_vertex)
                  /\ UNCHANGED <<graph_dict, vertices, path, runs, completed>>
             ELSE LET added == add_vertex(graph_dict, vertices, NewKey(vertices),
                                          <<expansion_vertex>>, expansion_point, 1000)
                      after == set_active_states(added.dict, expansion_vertex)
                  IN  /\ graph_dict' = after.dict
                      /\ vertices' = added.order
                      /\ path' = after.path
                      /\ runs' = runs + 1
                      /\ Return(after.raised)
                      /\ stack' = stack
    /\ UNCHANGED <<seed, query, result>>

\* the recursive call returned: line 127 of the frame that made it
Unwind ==
    /\ pc = "unwind"
    /\ LET expansion_vertex == stack[Len(stack)]
           after == set_active_states(graph_dict, expansion_vertex)
       IN  /\ graph_dict' = after.dict
           /\ path' = after.path
           /\ runs' = runs + 1
           /\ stack' = Front(stack)
           /\ pc' = IF after.raised THEN "ValueError"
                    ELSE IF Front(stack) = <<>> THEN "idle" ELSE "unwind"
           /\ completed' = IF ~after.raised /\ Front(stack) = <<>>
                           THEN completed + 1 ELSE completed
    /\ UNCHANGED <<vertices, seed, query, result>>

\* pick_expansion_vertex falls through its loop (P still positive after the
\* last subtraction, by rounding) and returns the integer 0, which is no key
\* of a graph keyed by strings: net_force(0) raises KeyError at graph[0]
PickFallback ==
    /\ pc = "pick"
    /\ pc' = "KeyError"
    /\ stack' = <<>>
    /\ UNCHANGED <<graph_dict, vertices, path, runs, completed, seed, query, result>>

Next == Grow \/ Attempt \/ Unwind \/ PickFallback

Spec == Init /\ [][Next]_vars

(***************************************************************************)
(* Reinforcement alone: set_active_states(seed) called over and over on a  *)
(* graph handed to the constructor                                         *)
(***************************************************************************)
\* the reference graph after a vertex "2" was hung below "1"
ChainGraph(w0) ==
    add_vertex(ReferenceGraph(w0), <<"0", "1">>, "2", <<"1">>, <<r, r + r>>, 1000)

InitBurn ==
    /\ \E w0 \in RootWeights :
          \/ graph_dict = ReferenceGraph(w0) /\ vertices = <<"0", "1">>
          \/ graph_dict = ChainGraph(w0).dict /\ vertices = ChainGraph(w0).order
    /\ seed \in Range(vertices)
    /\ pc = "idle"
    /\ stack = <<>>
    /\ path = <<>>
    /\ runs = 0
    /\ completed = 0
    /\ query = <<>>
    /\ result = <<>>

Burn ==
    /\ pc = "idle"
    /\ LET after == set_active_states(graph_dict, seed)
       IN  /\ graph_dict' = after.dict
           /\ path' = after.path
           /\ pc' = IF after.raised THEN "ValueError" ELSE "idle"
    /\ UNCHANGED <<vertices, stack, runs, completed, seed, query, result>>

NextBurn == Burn

SpecBurn == InitBurn /\ [][NextBurn]_vars

(***************************************************************************)
(* The graph store called directly: add_vertex and find_all_paths          *)
(***************************************************************************)
\* keys, neighbour lists, positions and weights the calls are made with
StoreKeys == {"0", "1", "2", "9"}
StoreNeighs == {<<>>, <<"1">>, <<"0", "9">>}
StorePos == {<<>>, <<r, 0>>}
StoreWeights == {1000}

StoreAddVertex ==
    /\ pc = "idle"
    /\ \E vertex \in StoreKeys, neigh \in StoreNeighs, pos \in StorePos, w \in StoreWeights :
         LET added == add_vertex(graph_dict, vertices, vertex, neigh, pos, w)
         IN  /\ graph_dict' = added.dict
             /\ vertices' = added.order
             /\ query' = <<"add_vertex", vertex, neigh, pos, w>>
    /\ UNCHANGED <<pc, stack, path, runs, completed, seed, result>>

StoreFindAllPaths ==
    /\ pc = "idle"
    /\ \E start_vertex \in StoreKeys, end_vertex \in StoreKeys :
         /\ result' = find_all_paths(graph_dict, start_vertex, end_vertex, <<>>)
         /\ query' = <<"find_all_paths", start_vertex, end_vertex>>
    /\ UNCHANGED <<graph_dict, vertices, pc, stack, path, runs, completed, seed>>

NextStore == StoreAddVertex \/ StoreFindAllPaths

SpecStore == Init /\ [][NextStore]_vars

(***************************************************************************)
(* Properties                                                              *)
(***************************************************************************)
Keys == DOMAIN graph_dict

\* burnt value a exceeds burnt value b
FloatGreater(a, b) == FloatLess(b, a)

C2_SymmetricAdjacency ==
    \A u \in Keys : \A w \in Range(graph_dict[u].neighbors) :
        w \in Keys /\ u \in Range(graph_dict[w].neighbors)

\* C3: a rejected attempt is discarded, so a make_new_vertex call runs the
\* reinforcement rule exactly once: never more than once while it runs, and
\* once when it has completed.
C3_ReinforcedOnce ==
    /\ runs <= 1
    /\ (pc = "idle" /\ completed > 0) => runs = 1

\* C4: no step changes the weight of the root "0".
C4_RootWeightFixed ==
    [][graph_dict'[Root].weight = graph_dict[Root].weight]_vars

\* the root was the seed of a reinforcement that followed a retry
C4_Witness == runs = 2 /\ path = <<Root>> /\ graph_dict[Root].burnt # FloatZero

\* C5: no activation ever exceeds 15, no step lowers an activation, and a
\* step raises one only for a vertex on the best path, by one step of 0.005.
C5_ActivationCapped ==
    /\ [](\A k \in Keys : ~FloatGreater(graph_dict[k].burnt, BurntCap))
    /\ [][\A k \in Keys :
            \/ graph_dict'[k].burnt = graph_dict[k].burnt
            \/ /\ k \in Range(path')
               /\ graph_dict'[k].burnt = FloatAdd(graph_dict[k].burnt, BurntStep)
               /\ FloatLess(graph_dict[k].burnt, graph_dict'[k].burnt)]_vars

\* C6: a reinforcement leaves every vertex off the winning path with weight
\* previous - 0.025 if the previous weight was above 0.025 and with the
\* previous weight otherwise, which is never below max(0, previous - 0.025);
\* and no positive weight of any vertex becomes zero or negative.
C6_DecayFloored ==
    [][\A k \in Keys :
          LET before == graph_dict[k].weight
              now    == graph_dict'[k].weight
          IN  /\ k \notin Range(path') =>
                    /\ before > 25 => now = before - 25
                    /\ before <= 25 => now = before
                    /\ now >= (IF before - 25 > 0 THEN before - 25 ELSE 0)
              /\ before > 0 => now > 0]_vars

\* a vertex off the winning path sits at 0.025 after it decayed from 1
C6_Witness ==
    /\ path = <<Root>>
    /\ graph_dict["1"].weight = 25
    /\ graph_dict[Root].burnt # FloatZero

C8_AddPresentNoOp ==
    [][(query'[1] = "add_vertex" /\ query'[2] \in Keys)
          => (graph_dict' = graph_dict /\ vertices' = vertices)]_vars

\* C9: every make_new_vertex call stays within its retry cap and falls back
\* at the cap: no call ends in the interpreter's recursion limit.
C9_RetriesCapped == pc # "RecursionError"

\* C10: every vertex has a path to the root along neighbour references, and
\* no reinforcement fails for want of a path.
C10_RootReachable ==
    /\ \A k \in Keys : find_all_paths(graph_dict, k, Root, <<>>) # <<>>
    /\ pc # "ValueError"

\* a retried call is about to reinforce from the rejected expansion vertex,
\* in a graph that has grown twice
C10_Witness == pc = "unwind" /\ Len(vertices) = 4 /\ stack # <<>>

====
